---- MODULE Spec2Model ----
(***************************************************************************)
(* Session orchestration of the language-tutor server: the per-session     *)
(* audio buffer and its threshold dispatch (app/redis/audio_processor.py), *)
(* the agent_processing queue and its workers (app/redis/worker_manager.py,*)
(* app/agent_worker.py process_audio), the response fan-out towards the    *)
(* live connection (app/main.py) and the conversation state machine of     *)
(* AgentSession (app/agent_worker.py).                                     *)
(*                                                                         *)
(* Text is modelled as a sequence of symbols (one symbol per word); the    *)
(* Python operators `in` and str.lower() are modelled on those sequences.  *)
(* Audio is modelled as a sequence of chunk identifiers, each chunk        *)
(* carrying its size in bytes.                                             *)
(***************************************************************************)
EXTENDS Integers, Sequences, FiniteSets, TLC

VARIABLES
    \* ---- conversation state machine (AgentSession) ----
    sess,        \* the in-memory AgentSession object
    agentRec,    \* Redis key agent_session:<session_id>: <<>> or <<document>>
    fsUser,      \* Profile Store document Users/<user_id>
    games,       \* game registry as SyllabusManager.initialize builds it
    events,      \* what the last turn yielded / requested, in order
    prevAgent,   \* current_agent when the last turn started
    lastIn,      \* the inputs of the last turn
    turns,       \* turns performed so far
    \* ---- audio pipeline, agent workers and fan-out ----
    conn,        \* websocket_endpoint: the connection and what it has received
    sock,        \* envelopes sent on the websocket, in order
    userQ,       \* rq queue user_<device_id>
    sessQ,       \* rq queue session_management
    agentQ,      \* rq queue agent_processing
    buffer,      \* Redis key buffer:<session_id>: the chunks it holds, in order
    cw,          \* worker of the per-user queue
    sw,          \* worker of session_management
    aw,          \* workers of agent_processing
    channel,     \* messages published on agent:updates:<session_id>, in order
    subscribed,  \* the connection's pubsub is subscribed to the channel
    dispatched,  \* every process_audio job enqueued, in order, with its audio
    appended,    \* every chunk appended to the buffer, in order
    stateRec,    \* Redis key session:state:<session_id>: <<>> or <<document>>
    \* ---- rq workers and failing jobs ----
    workQ,       \* an rq queue: the jobs waiting, in order
    running,     \* per worker of the queue: <<>> or <<the job it performs>>
    performed,   \* per job id: how many times a worker has performed it
    failedJobs,  \* ids of the jobs whose handler raised
    deadLetter,  \* the records stored under debug:job_error:<job id>
    \* ---- connections and the worker manager ----
    clock,       \* int(time.time()): the time in whole seconds
    conns,       \* the connections accepted so far, each with its session id
    mgr,         \* worker manager: worker_processes, the processes it has
                 \* started and the Redis flag worker:<user queue>
    queueKey,    \* Redis key rq:queue:<user queue> exists (it holds jobs)
    info         \* Redis key session:info:<session_id> exists

turnVars == <<sess, events, prevAgent, lastIn, turns>>
storeVars == <<agentRec, fsUser, games>>
pipeVars == <<conn, sock, userQ, sessQ, agentQ, buffer, cw, sw, aw,
              channel, subscribed, dispatched, appended, stateRec>>
jobVars == <<workQ, running, performed, failedJobs, deadLetter>>
sysVars == <<clock, conns, mgr, queueKey, info>>
vars == <<turnVars, storeVars, pipeVars, jobVars, sysVars>>

(***************************************************************************)
(* Bounds                                                                  *)
(***************************************************************************)
MaxTurns == 2
MaxHistoryTurns == 8
MaxJobs == 3
MaxFrames == 3
MaxPipeFrames == 2

(***************************************************************************)
(* Text: sequences of symbols                                              *)
(***************************************************************************)
LowerSym(c) ==
    CASE c = "ZOO" -> "zoo"
      [] c = "Zoo" -> "zoo"
      [] c = "CAR" -> "car"
      [] c = "Adventure" -> "adventure"
      [] c = "Spanish" -> "spanish"
      [] c = "Road" -> "road"
      [] c = "Trip" -> "trip"
      [] c = "Play" -> "play"
      [] c = "What" -> "what"
      [] c = "Welcome" -> "welcome"
      [] c = "Get" -> "get"
      [] c = "Ready" -> "ready"
      [] c = "Back" -> "back"
      [] OTHER -> c

\* str.lower()
Lower(t) == [i \in DOMAIN t |-> LowerSym(t[i])]

\* `sub in t` for Python strings
Contains(t, sub) ==
    \E i \in 0..(Len(t) - Len(sub)) : SubSeq(t, i + 1, i + Len(sub)) = sub

NoName == "<None>"
NoAge == -1
NoGame == "<None>"
NoRec == <<>>

UserInfoCollector == "UserInfoCollector"
ChoiceLayer == "ChoiceLayer"

\* the two game prompts of app/prompts/add_prompts.py, as _detect_game_prompts
\* turns them into registry entries
ZooGame == [id |-> "ZOO", idText |-> <<"ZOO">>, name |-> <<"Zoo", "Adventure">>]
CarGame == [id |-> "CAR", idText |-> <<"CAR">>, name |-> <<"Spanish", "Road", "Trip">>]
GameIds == {"ZOO", "CAR"}

\* the registry is a dict filled in the order the Profile Store streams the
\* prompt documents
Registries == {<<ZooGame, CarGame>>, <<CarGame, ZooGame>>}

Truthy(name) == name /= NoName /\ name /= ""
TruthyAge(age) == age /= NoAge /\ age /= 0

\* dict iteration order: the first of a set of registry indices,
\* 0 when none does
FirstIdx(S) ==
    IF S = {} THEN 0 ELSE CHOOSE i \in S : \A j \in S : i <= j

(***************************************************************************)
(* AgentSession (app/agent_worker.py)                                      *)
(***************************************************************************)
Msg(role, content) == [role |-> role, content |-> content]

GreetingKnown == <<"hola", "what", "would", "you", "like", "to", "learn", "today">>
GreetingNew == <<"hola", "could", "you", "tell", "me", "your", "name">>
ApologyText == <<"sorry", "could", "you", "try", "again">>
StreamErrorText == <<"sorry", "i", "encountered", "an", "error">>
NoneContent == <<"<None>">>
SwitchMessage(g) == <<"Switching", "to">> \o g.name \o <<"Get", "ready">>

\* AgentSession.__init__
NewSession ==
    [current_agent |-> UserInfoCollector,
     current_game |-> NoGame,
     message_history |-> <<>>,
     name |-> NoName,
     age |-> NoAge,
     games |-> <<>>,
     vocab |-> {},
     active |-> TRUE]

\* AgentSession._store_session_state: the JSON document written to Redis
StoreSessionState(s) ==
    [active |-> s.active,
     current_agent |-> s.current_agent,
     current_game |-> s.current_game,
     message_history |-> s.message_history,
     name |-> s.name,
     age |-> s.age,
     vocab |-> s.vocab]

\* AgentSession.initialize.  syl is the outcome of SyllabusManager.initialize:
\* "ok", "no_prompts" (get_all_prompts returned nothing) or "missing"
\* (game prompts detected but an essential prompt is missing).
\* Returns the session and whether it was stored.
Initialize(fs, syl, reg) ==
    LET s0 == [NewSession EXCEPT !.games = IF syl = "no_prompts" THEN <<>> ELSE reg]
    IN IF syl /= "ok"
       THEN [sess |-> s0, stored |-> FALSE]
       ELSE LET s1 == [s0 EXCEPT
                         !.name = IF fs.name /= NoName THEN fs.name ELSE @,
                         !.age = IF fs.age /= NoAge THEN fs.age ELSE @,
                         !.vocab = fs.vocab]
                known == Truthy(s1.name)
                s2 == [s1 EXCEPT
                         !.current_agent = IF known THEN ChoiceLayer
                                           ELSE UserInfoCollector,
                         !.message_history =
                             <<Msg("assistant",
                                   IF known THEN GreetingKnown ELSE GreetingNew)>>]
            IN [sess |-> s2, stored |-> TRUE]

\* process_transcription, lines 187-189
TrimHistory(h) ==
    IF Len(h) > 20 THEN SubSeq(h, Len(h) - 19, Len(h)) ELSE h

\* one iteration of the loop of _check_game_switch
MatchesSwitch(g, low) ==
    \/ Contains(low, <<"play">> \o Lower(g.idText))
    \/ Contains(low, <<"play">> \o Lower(g.name))
    \/ Contains(low, <<"switch", "to">> \o Lower(g.name))
    \/ Contains(low, Lower(g.name))

\* AgentSession._check_game_switch: index of the game returned, 0 for None
CheckGameSwitch(reg, transcription) ==
    LET low == Lower(transcription)
    IN FirstIdx({i \in DOMAIN reg : MatchesSwitch(reg[i], low)})

\* a tracking that removes the entry when it is already recorded
PutWordToggling(v, word, translation) ==
    LET entry == [word |-> word, translation |-> translation]
    IN IF entry \in v THEN v \ {entry} ELSE {e \in v : e.word /= word} \cup {entry}

\* the vocabulary is a dict keyed by the word: vocabulary[word] = {...}
PutWord(v, word, translation) ==
    {e \in v : e.word /= word} \cup {[word |-> word, translation |-> translation]}

\* a set(..., merge=True) that overwrites the whole vocabulary map
MergeVocabReplacing(stored, v) == v

\* add_user_to_firestore(vocabulary=v): set(..., merge=True) merges the map
\* entry by entry, the entries of v overwrite, the other entries stay
MergeVocab(stored, v) ==
    {e \in stored : \A n \in v : n.word /= e.word} \cup v

\* a tool whose result for an unknown name reports success
ExecuteToolCallUnknownSucceeds(s, fs, call, fsUp) ==
    [sess |-> s, fs |-> fs, success |-> TRUE]

\* AgentSession._execute_tool_call: the session and the Profile Store after
\* the call and the success flag of its result.  fsUp: add_user_to_firestore
\* reaches the store.
ExecuteToolCall(s, fs, call, fsUp) ==
    IF call.name = "save_user_info"
    THEN IF Truthy(call.arg_name) /\ TruthyAge(call.arg_age)
         THEN [sess |-> [s EXCEPT !.name = call.arg_name, !.age = call.arg_age],
               fs |-> IF fsUp
                      THEN [fs EXCEPT !.name = call.arg_name, !.age = call.arg_age]
                      ELSE fs,
               success |-> fsUp]
         ELSE [sess |-> s, fs |-> fs, success |-> FALSE]
    ELSE IF call.name = "track_vocabulary"
    THEN IF call.word /= "" /\ call.translation /= ""
         THEN LET v == PutWord(s.vocab, call.word, call.translation)
              IN [sess |-> [s EXCEPT !.vocab = v],
                  fs |-> IF fsUp THEN [fs EXCEPT !.vocab = MergeVocab(@, v)] ELSE fs,
                  success |-> fsUp]
         ELSE [sess |-> s, fs |-> fs, success |-> FALSE]
    ELSE IF call.name \in {"get_child_name", "get_child_age"}
    THEN [sess |-> s, fs |-> fs, success |-> TRUE]
    ELSE [sess |-> s, fs |-> fs, success |-> FALSE]

RECURSIVE ExecuteToolCalls(_, _, _, _)
ExecuteToolCalls(s, fs, calls, fsUp) ==
    IF calls = <<>> THEN [sess |-> s, fs |-> fs]
    ELSE LET r == ExecuteToolCall(s, fs, Head(calls), fsUp)
         IN ExecuteToolCalls(r.sess, r.fs, Tail(calls), fsUp)

\* a selection test that does not ask for "get ready"
AnnouncesGameNoReady(g, low) ==
    \/ Contains(low, <<"welcome", "to">> \o Lower(g.name))
    \/ Contains(low, <<"let's", "play">> \o Lower(g.name))
    \/ Contains(low, <<"starting">> \o Lower(g.name))

\* the selection test of the ChoiceLayer branch of _check_for_handoff
AnnouncesGame(g, low) ==
    /\ \/ Contains(low, <<"welcome", "to">> \o Lower(g.name))
       \/ Contains(low, <<"let's", "play">> \o Lower(g.name))
       \/ Contains(low, <<"starting">> \o Lower(g.name))
    /\ Contains(low, <<"get", "ready">>)

\* AgentSession._check_for_handoff: the agent to hand off to, NoGame for None
CheckForHandoff(s, content) ==
    LET low == Lower(content)
        i == FirstIdx({k \in DOMAIN s.games : AnnouncesGame(s.games[k], low)})
    IN IF s.current_agent = UserInfoCollector
       THEN IF /\ Truthy(s.name) /\ TruthyAge(s.age)
               /\ \/ Contains(low, <<"what", "would", "you", "like", "to", "learn">>)
                  \/ Contains(low, <<"what", "would", "you", "like", "to", "play">>)
                  \/ Contains(low, <<"choose", "a", "game">>)
            THEN ChoiceLayer ELSE NoGame
       ELSE IF s.current_agent = ChoiceLayer
       THEN IF i /= 0 THEN s.games[i].id ELSE NoGame
       ELSE IF s.current_game /= NoGame
       THEN IF \/ Contains(low, <<"back", "to", "the", "main", "menu">>)
               \/ Contains(low, <<"what", "would", "you", "like", "to", "play", "next">>)
               \/ Contains(low, <<"choose", "another", "game">>)
            THEN ChoiceLayer ELSE NoGame
       ELSE NoGame

\* a handoff that forgets to clear the game
ApplyHandoffKeepsGame(s, handoff) ==
    IF handoff = NoGame THEN s
    ELSE [s EXCEPT !.current_agent = handoff]

\* process_transcription, lines 256-262
ApplyHandoff(s, handoff) ==
    IF handoff = NoGame THEN s
    ELSE [s EXCEPT !.current_agent = handoff,
                   !.current_game = IF handoff = ChoiceLayer THEN NoGame ELSE @]

Ev(kind, s) == [kind |-> kind, agent |-> s.current_agent, game |-> s.current_game]

\* process_transcription, lines 194-212: the direct game switch
ApplyGameSwitch(s, transcription) ==
    LET i == CheckGameSwitch(s.games, transcription)
    IN IF i = 0 THEN [sess |-> s, events |-> <<>>]
       ELSE LET g == s.games[i]
            IN [sess |-> [s EXCEPT
                            !.message_history =
                                Append(@, Msg("assistant", SwitchMessage(g))),
                            !.current_agent = g.id,
                            !.current_game = g.id],
                events |-> <<Ev("yield_switch", s)>>]

\* process_transcription, lines 267-276: the except branch
ApologyTurn(s, fs, evs) ==
    LET s1 == [s EXCEPT !.message_history = Append(@, Msg("assistant", ApologyText))]
    IN [sess |-> s1, fs |-> fs,
        events |-> evs \o <<Ev("yield_apology", s)>>,
        rec |-> StoreSessionState(s1)]

\* AgentSession.process_transcription, one whole turn.
\*   in.transcription  the user utterance
\*   in.stream         "raise" (the client cannot be obtained), "fragments"
\*                     or "error_text" (generate_streaming_response caught
\*                     an API error and yielded its own error text)
\*   in.full           "raise", "error" (generate_response returned the
\*                     error dict), "null" (content is null) or "ok"
\*   in.content        the content of the full response
\*   in.tool_calls     the tool calls of the full response
\*   in.fsUp           the Profile Store accepts writes
ProcessTranscription(s, fs, in) ==
    LET s1 == [s EXCEPT !.message_history =
                  TrimHistory(Append(@, Msg("user", in.transcription)))]
        sw1 == ApplyGameSwitch(s1, in.transcription)
        s2 == sw1.sess
        e2 == sw1.events
    IN IF in.stream = "raise"
       THEN ApologyTurn(s2, fs, e2)
       ELSE
       LET e3 == e2 \o <<Ev("request_stream", s2), Ev("yield_fragment", s2)>>
       IN IF in.full = "raise"
          THEN ApologyTurn(s2, fs, e3)
          ELSE
          LET e4 == e3 \o <<Ev("request_full", s2)>>
              calls == IF in.full = "error" THEN <<>> ELSE in.tool_calls
              tc == ExecuteToolCalls(s2, fs, calls, in.fsUp)
              s3 == tc.sess
              content == IF in.full = "error" THEN <<>>
                         ELSE IF in.full = "null" THEN NoneContent
                         ELSE in.content
              s4 == [s3 EXCEPT !.message_history = Append(@, Msg("assistant", content))]
          IN IF in.full = "null"
             THEN ApologyTurn(s4, tc.fs, e4)   \* None.lower() raises
             ELSE LET s5 == ApplyHandoff(s4, CheckForHandoff(s4, content))
                  IN [sess |-> s5, fs |-> tc.fs, events |-> e4,
                      rec |-> StoreSessionState(s5)]

(***************************************************************************)
(* Inputs of a turn                                                        *)
(***************************************************************************)
Utterances ==
    {<<"hello">>,
     <<"Play", "ZOO">>,
     <<"zoo", "adventure", "then", "play", "car">>,
     <<"spanish", "road", "trip", "then", "play", "zoo">>}

ReplyPlain == <<"hola">>
ReplyPlay == <<"What", "would", "you", "like", "to", "play">>
ReplyPlayNext == <<"what", "would", "you", "like", "to", "play", "next">>
ReplyWelcomeReady == <<"Welcome", "to", "zoo", "adventure", "Get", "Ready">>
ReplyWelcome == <<"welcome", "to", "zoo", "adventure">>
ReplyMenu == <<"Back", "to", "the", "main", "menu">>

SaveUserInfo(n, a) == [name |-> "save_user_info", arg_name |-> n, arg_age |-> a]

Outcome(stream, full, content, calls, fsUp) ==
    [stream |-> stream, full |-> full, content |-> content,
     tool_calls |-> calls, fsUp |-> fsUp]

\* what the Inference Service and the Profile Store do during a turn
Outcomes ==
    {Outcome("raise", "raise", <<>>, <<>>, TRUE),
     Outcome("fragments", "raise", <<>>, <<>>, TRUE),
     Outcome("error_text", "error", <<>>, <<>>, TRUE),
     Outcome("fragments", "null", <<>>, <<SaveUserInfo("Alex", 6)>>, TRUE),
     Outcome("fragments", "ok", ReplyPlain, <<>>, TRUE),
     Outcome("fragments", "ok", ReplyPlain, <<SaveUserInfo("Alex", 6)>>, TRUE),
     Outcome("fragments", "ok", ReplyPlay, <<>>, TRUE),
     Outcome("fragments", "ok", ReplyPlay, <<SaveUserInfo("Alex", 6)>>, TRUE),
     Outcome("fragments", "ok", ReplyPlay, <<SaveUserInfo("Alex", 6)>>, FALSE),
     Outcome("fragments", "ok", ReplyPlay, <<SaveUserInfo("Alex", NoAge)>>, TRUE),
     Outcome("fragments", "ok", ReplyPlayNext, <<>>, TRUE),
     Outcome("fragments", "ok", ReplyWelcomeReady, <<>>, TRUE),
     Outcome("fragments", "ok", ReplyWelcome, <<>>, TRUE),
     Outcome("fragments", "ok", ReplyMenu, <<>>, TRUE)}

TurnInput(u, o) ==
    [valid |-> TRUE, transcription |-> u, stream |-> o.stream, full |-> o.full,
     content |-> o.content, tool_calls |-> o.tool_calls, fsUp |-> o.fsUp]

NoInput ==
    [valid |-> FALSE, transcription |-> <<>>, stream |-> "raise", full |-> "raise",
     content |-> <<>>, tool_calls |-> <<>>, fsUp |-> TRUE]

SyllabusOutcomes == {"ok", "no_prompts", "missing"}
Profiles ==
    {[name |-> NoName, age |-> NoAge, vocab |-> {}],
     [name |-> "Alex", age |-> 6, vocab |-> {}]}

(***************************************************************************)
(* The pipeline variables at rest (no connection)                          *)
(***************************************************************************)
PipeAtRest ==
    /\ conn = [state |-> "none", frames |-> 0, bad |-> <<>>]
    /\ sock = <<>>
    /\ userQ = <<>>
    /\ sessQ = <<>>
    /\ agentQ = <<>>
    /\ buffer = <<>>
    /\ cw = <<>>
    /\ sw = <<>>
    /\ aw = <<>>
    /\ channel = <<>>
    /\ subscribed = FALSE
    /\ dispatched = <<>>
    /\ appended = <<>>
    /\ stateRec = <<>>

(***************************************************************************)
(* The job variables at rest: an empty queue and idle workers              *)
(***************************************************************************)
\* AGENT_WORKERS of app/redis/worker_manager.py
AgentWorkers == 2

JobsAtRest ==
    /\ workQ = <<>>
    /\ running = [w \in 1..AgentWorkers |-> <<>>]
    /\ performed = [j \in 1..MaxJobs |-> 0]
    /\ failedJobs = {}
    /\ deadLetter = {}

(***************************************************************************)
(* The worker manager after start-up, no connection accepted yet           *)
(***************************************************************************)
UserQueue == "user_esp1"
WorkerKeys ==
    {"session_management", "audio_processing",
     "agent_processing_0", "agent_processing_1", UserQueue}

\* worker_manager.py __main__, lines 215-255: one worker of
\* session_management, one of audio_processing, AGENT_WORKERS of
\* agent_processing, each tracked in worker_processes (0: no entry)
SystemAtRest ==
    /\ clock = 0
    /\ conns = <<>>
    /\ mgr = [procs |-> <<[queue |-> "session_management", alive |-> TRUE],
                          [queue |-> "audio_processing", alive |-> TRUE],
                          [queue |-> "agent_processing_0", alive |-> TRUE],
                          [queue |-> "agent_processing_1", alive |-> TRUE]>>,
              tracked |-> [k \in WorkerKeys |->
                             CASE k = "session_management" -> 1
                               [] k = "audio_processing" -> 2
                               [] k = "agent_processing_0" -> 3
                               [] k = "agent_processing_1" -> 4
                               [] OTHER -> 0],
              flag |-> FALSE]
    /\ queueKey = FALSE
    /\ info = TRUE

(***************************************************************************)
(* SpecTurn: one AgentSession object and the turns performed on it         *)
(***************************************************************************)
InitTurn ==
    /\ games \in Registries
    /\ fsUser \in Profiles
    /\ \E syl \in SyllabusOutcomes :
          LET r == Initialize(fsUser, syl, games)
          IN /\ sess = r.sess
             /\ agentRec = IF r.stored THEN <<StoreSessionState(r.sess)>> ELSE NoRec
    /\ events = <<>>
    /\ prevAgent = sess.current_agent
    /\ lastIn = NoInput
    /\ turns = 0
    /\ PipeAtRest
    /\ JobsAtRest
    /\ SystemAtRest

\* process_audio is a plain function that the rq worker calls: no event
\* loop is running when it calls load_from_redis (line 641)
InEventLoop == FALSE

\* AgentSession.load_from_redis: <<>> for None, else <<the session>>.  After
\* restoring the fields it calls asyncio.create_task, which raises
\* RuntimeError when no event loop is running; the except branch returns None.
LoadFromRedis(rec, inLoop) ==
    IF rec = NoRec THEN <<>>
    ELSE IF ~inLoop THEN <<>>
    ELSE <<[NewSession EXCEPT
              !.active = rec[1].active,
              !.current_agent = rec[1].current_agent,
              !.current_game = rec[1].current_game,
              !.message_history = rec[1].message_history,
              !.name = rec[1].name,
              !.age = rec[1].age,
              !.vocab = rec[1].vocab]>>

\* process_audio, lines 640-645: the session load_from_redis returns, or a
\* new AgentSession, created and initialised, when it returns None
CreateSession ==
    /\ LET loaded == LoadFromRedis(agentRec, InEventLoop)
       IN IF loaded /= <<>>
          THEN sess' = loaded[1] /\ UNCHANGED agentRec
          ELSE \E syl \in SyllabusOutcomes :
          LET r == Initialize(fsUser, syl, games)
          IN /\ sess' = r.sess
             /\ agentRec' = IF r.stored THEN <<StoreSessionState(r.sess)>> ELSE agentRec
    /\ events' = <<>>
    /\ prevAgent' = sess'.current_agent
    /\ lastIn' = NoInput
    /\ UNCHANGED <<fsUser, games, turns>>
    /\ UNCHANGED <<pipeVars, jobVars, sysVars>>

\* AgentSession.process_transcription driven to its end, for at most limit
\* turns with the utterances us and the outcomes os
TurnWith(limit, us, os) ==
    /\ turns < limit
    /\ \E u \in us, o \in os :
          LET in == TurnInput(u, o)
              r == ProcessTranscription(sess, fsUser, in)
          IN /\ sess' = r.sess
             /\ fsUser' = r.fs
             /\ events' = r.events
             /\ agentRec' = <<r.rec>>
             /\ lastIn' = in
    /\ prevAgent' = sess.current_agent
    /\ turns' = turns + 1
    /\ UNCHANGED games
    /\ UNCHANGED <<pipeVars, jobVars, sysVars>>

Turn == TurnWith(MaxTurns, Utterances, Outcomes)

NextTurn == CreateSession \/ Turn

SpecTurn == InitTurn /\ [][NextTurn]_vars

(***************************************************************************)
(* Properties of the conversation state machine                            *)
(***************************************************************************)
BothSet(s) == Truthy(s.name) /\ TruthyAge(s.age)

HasChoiceTrigger(content) ==
    LET low == Lower(content)
    IN \/ Contains(low, <<"what", "would", "you", "like", "to", "learn">>)
       \/ Contains(low, <<"what", "would", "you", "like", "to", "play">>)
       \/ Contains(low, <<"choose", "a", "game">>)

HasReply(in) == in.valid /\ in.stream /= "raise" /\ in.full = "ok"

\* C7: a turn that starts in UserInfoCollector and ends with name or age
\* unset leaves the phase UserInfoCollector; a turn that starts in
\* UserInfoCollector, has name and age set and whose reply contains one of
\* the trigger phrases ends in ChoiceLayer.
C7_UserInfoHandoff ==
    (lastIn.valid /\ prevAgent = UserInfoCollector) =>
        /\ ~BothSet(sess) => sess.current_agent = UserInfoCollector
        /\ (BothSet(sess) /\ HasReply(lastIn) /\ HasChoiceTrigger(lastIn.content))
              => sess.current_agent = ChoiceLayer

\* C8: a step never takes the phase to a game from a phase other than
\* ChoiceLayer (or a game).
C8_GameOnlyFromChoiceLayer ==
    [][(sess'.current_agent \in GameIds /\ sess.current_agent \notin GameIds)
          => sess.current_agent = ChoiceLayer]_vars

\* C9: whenever the phase is ChoiceLayer the current game is null, in the
\* session object and in the persisted record.
C9_ChoiceLayerHasNoGame ==
    /\ sess.current_agent = ChoiceLayer => sess.current_game = NoGame
    /\ \A i \in DOMAIN agentRec :
          agentRec[i].current_agent = ChoiceLayer => agentRec[i].current_game = NoGame

\* a turn that started in a game with a current game has returned to
\* ChoiceLayer and was persisted
C9_Witness ==
    /\ lastIn.valid
    /\ prevAgent \in GameIds
    /\ HasReply(lastIn)
    /\ sess.current_agent = ChoiceLayer
    /\ agentRec /= NoRec
    /\ agentRec[1].current_agent = ChoiceLayer
    /\ agentRec[1].current_game = NoGame

\* C10: when the utterance contains "play <game id>" for a known game id,
\* the switch notice is the first thing the turn emits, and at every request
\* to the Inference Service and every model fragment the phase and the
\* current game are that game.
C10_DirectOverride ==
    \A i \in DOMAIN sess.games :
        LET g == sess.games[i]
        IN (lastIn.valid
            /\ Contains(Lower(lastIn.transcription), <<"play">> \o Lower(g.idText)))
           => /\ Len(events) > 0
              /\ events[1].kind = "yield_switch"
              /\ \A k \in DOMAIN events :
                    events[k].kind \in {"request_stream", "yield_fragment", "request_full"}
                       => (k > 1 /\ events[k].agent = g.id /\ events[k].game = g.id)

(***************************************************************************)
(* The audio pipeline: websocket_endpoint (app/main.py), the handlers of   *)
(* app/redis/audio_processor.py, the agent jobs of app/agent_worker.py and *)
(* the workers started by app/redis/worker_manager.py.  One connection of  *)
(* one device.                                                             *)
(***************************************************************************)
Threshold == 32000
ChunkSizes == {0, 16000, 32000}
AudioChunkSizes == ChunkSizes \cup {4000}
PipeSyllabus == {"ok", "no_prompts"}
PipeOutcomes ==
    {Outcome("fragments", "ok", ReplyPlain, <<>>, TRUE),
     Outcome("raise", "raise", <<>>, <<>>, TRUE)}

NoChunk == [id |-> 0, size |-> 0]
NoJob == [kind |-> "none", id |-> 0, data |-> <<>>, reason |-> ""]
IdleChunkWorker == [pc |-> "idle", chunk |-> NoChunk, size |-> 0, data |-> <<>>]
IdleSessionWorker == [pc |-> "idle", reason |-> "", data |-> <<>>]
IdleAgentWorker == [pc |-> "idle", job |-> NoJob, text |-> <<>>, sess |-> NewSession]

\* redis STRLEN of the buffer
RECURSIVE Size(_)
Size(buf) == IF buf = <<>> THEN 0 ELSE Head(buf).size + Size(Tail(buf))

\* a threshold test that misses the exact size
ThresholdExceeded(size) == size > Threshold

\* process_user_audio_chunk, line 74
ThresholdReached(size) == size >= Threshold

\* transcribe_audio: the text of an audio segment, one symbol per chunk
TextOf(data) == [i \in DOMAIN data |-> ToString(data[i].id)]

AudioJob(id, data) == [kind |-> "audio", id |-> id, data |-> data, reason |-> ""]
Envelope(type, ref) == [type |-> type, ref |-> ref]

\* the state after websocket_endpoint has accepted the connection, stored the
\* session info, enqueued start_user_session_processor and subscribed
InitPipe ==
    /\ sess = NewSession
    /\ events = <<>>
    /\ prevAgent = UserInfoCollector
    /\ lastIn = NoInput
    /\ turns = 0
    /\ agentRec = NoRec
    /\ fsUser \in Profiles
    /\ games = <<ZooGame, CarGame>>
    /\ conn = [state |-> "open", frames |-> 0, bad |-> <<>>]
    /\ sock = <<>>
    /\ userQ = <<>>
    /\ sessQ = <<[kind |-> "start", reason |-> ""]>>
    /\ agentQ = <<>>
    /\ buffer = <<>>
    /\ cw = IdleChunkWorker
    /\ sw = IdleSessionWorker
    /\ aw = [w \in 1..AgentWorkers |-> IdleAgentWorker]
    /\ channel = <<>>
    /\ subscribed = TRUE
    /\ dispatched = <<>>
    /\ appended = <<>>
    /\ stateRec = <<>>
    /\ JobsAtRest
    /\ SystemAtRest

\* ---- websocket_endpoint: the receive loop ----
\* main.py:123-125 adds listen_for_agent_responses to a BackgroundTasks object
\* created inside the endpoint; nothing ever runs that object, so the listener
\* takes no step and the only writer of the socket is the receive loop.

\* a binary frame: lines 131-155
RecvAudio(limit, sizes) ==
    /\ conn.state = "open"
    /\ conn.frames < limit
    /\ \E size \in sizes :
          userQ' = Append(userQ, [id |-> conn.frames + 1, size |-> size])
    /\ conn' = [conn EXCEPT !.frames = @ + 1]
    /\ sock' = Append(sock, Envelope("ack", conn.frames + 1))
    /\ UNCHANGED <<sessQ, agentQ, buffer, cw, sw, aw, channel, subscribed,
                   dispatched, appended, stateRec>>
    /\ UNCHANGED <<turnVars, storeVars, jobVars, sysVars>>

\* {"type": "end_stream"}: lines 164-176
RecvEndStream(limit) ==
    /\ conn.state = "open"
    /\ conn.frames < limit
    /\ sessQ' = Append(sessQ, [kind |-> "end", reason |-> "client_signal"])
    /\ conn' = [conn EXCEPT !.frames = @ + 1]
    /\ sock' = Append(sock, Envelope("info_end", conn.frames + 1))
    /\ UNCHANGED <<userQ, agentQ, buffer, cw, sw, aw, channel, subscribed,
                   dispatched, appended, stateRec>>
    /\ UNCHANGED <<turnVars, storeVars, jobVars, sysVars>>

\* {"type": "text_input", "content": <non-empty>}: lines 178-198
RecvTextInput(limit) ==
    /\ conn.state = "open"
    /\ conn.frames < limit
    /\ agentQ' = Append(agentQ, [NoJob EXCEPT !.kind = "text", !.id = conn.frames + 1])
    /\ conn' = [conn EXCEPT !.frames = @ + 1]
    /\ sock' = Append(sock, Envelope("info_text", conn.frames + 1))
    /\ UNCHANGED <<userQ, sessQ, buffer, cw, sw, aw, channel, subscribed,
                   dispatched, appended, stateRec>>
    /\ UNCHANGED <<turnVars, storeVars, jobVars, sysVars>>

\* WebSocketDisconnect: lines 207-223
Disconnect ==
    /\ conn.state = "open"
    /\ conn' = [conn EXCEPT !.state = "closed"]
    /\ sessQ' = Append(sessQ, [kind |-> "end", reason |-> "disconnect"])
    /\ UNCHANGED <<sock, userQ, agentQ, buffer, cw, sw, aw, channel, subscribed,
                   dispatched, appended, stateRec>>
    /\ UNCHANGED <<turnVars, storeVars, jobVars, sysVars>>

\* a test that looks at the audio key alone
MissingKeyOnly(size, present) == size = 0

\* process_user_audio_chunk, lines 25-38, and process_audio, lines 608-621:
\* the audio key holds nothing or session:info:<session_id> is gone
Missing(size, present) == size = 0 \/ ~present

\* ---- worker of the per-user queue: process_user_audio_chunk ----

\* lines 25-66: fetch the chunk and append it to the buffer
CwAppend ==
    /\ cw.pc = "idle"
    /\ userQ /= <<>>
    /\ userQ' = Tail(userQ)
    /\ LET c == Head(userQ)
       IN IF Missing(c.size, info)
          THEN UNCHANGED <<buffer, cw, appended>>  \* status "error"
          ELSE /\ buffer' = Append(buffer, c)
               /\ appended' = Append(appended, c)
               /\ cw' = [IdleChunkWorker EXCEPT !.pc = "chunk_strlen", !.chunk = c]
    /\ UNCHANGED <<conn, sock, sessQ, agentQ, sw, aw, channel, subscribed,
                   dispatched, stateRec>>
    /\ UNCHANGED <<turnVars, storeVars, jobVars, sysVars>>

\* lines 69-74: measure the buffer and test the threshold
CwStrlen ==
    /\ cw.pc = "chunk_strlen"
    /\ cw' = IF ThresholdReached(Size(buffer))
             THEN [cw EXCEPT !.pc = "chunk_get", !.size = Size(buffer)]
             ELSE IdleChunkWorker
    /\ UNCHANGED <<conn, sock, userQ, sessQ, agentQ, buffer, sw, aw, channel,
                   subscribed, dispatched, appended, stateRec>>
    /\ UNCHANGED <<turnVars, storeVars, jobVars, sysVars>>

\* lines 76-79: read the buffer
CwGet ==
    /\ cw.pc = "chunk_get"
    /\ cw' = [cw EXCEPT !.pc = "chunk_enqueue", !.data = buffer]
    /\ UNCHANGED <<conn, sock, userQ, sessQ, agentQ, buffer, sw, aw, channel,
                   subscribed, dispatched, appended, stateRec>>
    /\ UNCHANGED <<turnVars, storeVars, jobVars, sysVars>>

\* lines 81-92: store the audio under an agent key and enqueue process_audio
CwEnqueue ==
    /\ cw.pc = "chunk_enqueue"
    /\ LET id == Len(dispatched) + 1
       IN /\ agentQ' = Append(agentQ, AudioJob(id, cw.data))
          /\ dispatched' = Append(dispatched,
                [id |-> id, src |-> "chunk", data |-> cw.data, size |-> cw.size])
    /\ cw' = [cw EXCEPT !.pc = "chunk_clear"]
    /\ UNCHANGED <<conn, sock, userQ, sessQ, buffer, sw, aw, channel,
                   subscribed, appended, stateRec>>
    /\ UNCHANGED <<turnVars, storeVars, jobVars, sysVars>>

\* line 97: clear the buffer
CwClear ==
    /\ cw.pc = "chunk_clear"
    /\ buffer' = <<>>
    /\ cw' = IdleChunkWorker
    /\ UNCHANGED <<conn, sock, userQ, sessQ, agentQ, sw, aw, channel,
                   subscribed, dispatched, appended, stateRec>>
    /\ UNCHANGED <<turnVars, storeVars, jobVars, sysVars>>

\* ---- worker of session_management ----

\* start_user_session_processor
SwStart ==
    /\ sw.pc = "idle"
    /\ sessQ /= <<>>
    /\ Head(sessQ).kind = "start"
    /\ sessQ' = Tail(sessQ)
    /\ stateRec' = <<[active |-> TRUE, reason |-> ""]>>
    /\ agentQ' = Append(agentQ, [NoJob EXCEPT !.kind = "init"])
    /\ UNCHANGED <<conn, sock, userQ, buffer, cw, sw, aw, channel, subscribed,
                   dispatched, appended>>
    /\ UNCHANGED <<turnVars, storeVars, jobVars, sysVars>>

\* end_stream_processing, lines 223-226: is there anything in the buffer
SwEndCheck ==
    /\ sw.pc = "idle"
    /\ sessQ /= <<>>
    /\ Head(sessQ).kind = "end"
    /\ sessQ' = Tail(sessQ)
    /\ sw' = [IdleSessionWorker EXCEPT
                !.pc = IF Size(buffer) > 0 THEN "end_get" ELSE "end_state",
                !.reason = Head(sessQ).reason]
    /\ UNCHANGED <<conn, sock, userQ, agentQ, buffer, cw, aw, channel, subscribed,
                   dispatched, appended, stateRec>>
    /\ UNCHANGED <<turnVars, storeVars, jobVars, sysVars>>

\* end_stream_processing, line 229: read the buffer
SwEndGet ==
    /\ sw.pc = "end_get"
    /\ sw' = [sw EXCEPT !.pc = "end_enqueue", !.data = buffer]
    /\ UNCHANGED <<conn, sock, userQ, sessQ, agentQ, buffer, cw, aw, channel,
                   subscribed, dispatched, appended, stateRec>>
    /\ UNCHANGED <<turnVars, storeVars, jobVars, sysVars>>

\* end_stream_processing, lines 231-242: enqueue the final process_audio job
SwEndEnqueue ==
    /\ sw.pc = "end_enqueue"
    /\ LET id == Len(dispatched) + 1
       IN /\ agentQ' = Append(agentQ, AudioJob(id, sw.data))
          /\ dispatched' = Append(dispatched,
                [id |-> id, src |-> "end", data |-> sw.data, size |-> Size(sw.data)])
    /\ sw' = [sw EXCEPT !.pc = "end_clear"]
    /\ UNCHANGED <<conn, sock, userQ, sessQ, buffer, cw, aw, channel,
                   subscribed, appended, stateRec>>
    /\ UNCHANGED <<turnVars, storeVars, jobVars, sysVars>>

\* end_stream_processing, line 247: clear the buffer
SwEndClear ==
    /\ sw.pc = "end_clear"
    /\ buffer' = <<>>
    /\ sw' = [sw EXCEPT !.pc = "end_state"]
    /\ UNCHANGED <<conn, sock, userQ, sessQ, agentQ, cw, aw, channel,
                   subscribed, dispatched, appended, stateRec>>
    /\ UNCHANGED <<turnVars, storeVars, jobVars, sysVars>>

\* end_stream_processing, lines 251-268: mark the stream inactive and enqueue
\* end_agent_session
SwEndState ==
    /\ sw.pc = "end_state"
    /\ stateRec' = <<[active |-> FALSE, reason |-> sw.reason]>>
    /\ agentQ' = Append(agentQ, [NoJob EXCEPT !.kind = "end", !.reason = sw.reason])
    /\ sw' = IdleSessionWorker
    /\ UNCHANGED <<conn, sock, userQ, sessQ, buffer, cw, aw, channel, subscribed,
                   dispatched, appended>>
    /\ UNCHANGED <<turnVars, storeVars, jobVars, sysVars>>

\* ---- workers of agent_processing ----

AwUnchanged ==
    /\ UNCHANGED <<conn, sock, userQ, sessQ, buffer, cw, sw, subscribed,
                   dispatched, appended, stateRec>>
    /\ UNCHANGED <<turnVars, games, jobVars, sysVars>>

\* initialize_agent_session
AwInit(w) ==
    /\ aw[w].pc = "idle"
    /\ agentQ /= <<>>
    /\ Head(agentQ).kind = "init"
    /\ agentQ' = Tail(agentQ)
    /\ \E syl \in PipeSyllabus :
          LET r == Initialize(fsUser, syl, games)
          IN agentRec' = IF r.stored THEN <<StoreSessionState(r.sess)>> ELSE agentRec
    /\ UNCHANGED <<aw, channel, fsUser>>
    /\ AwUnchanged

\* a process_text_input job: app.agent_worker defines no such function, the
\* job fails when the worker resolves it
AwText(w) ==
    /\ aw[w].pc = "idle"
    /\ agentQ /= <<>>
    /\ Head(agentQ).kind = "text"
    /\ agentQ' = Tail(agentQ)
    /\ UNCHANGED <<aw, channel, agentRec, fsUser>>
    /\ AwUnchanged

\* end_agent_session
AwEnd(w) ==
    /\ aw[w].pc = "idle"
    /\ agentQ /= <<>>
    /\ Head(agentQ).kind = "end"
    /\ agentQ' = Tail(agentQ)
    /\ IF agentRec = NoRec
       THEN UNCHANGED <<agentRec, channel>>          \* "Session not found"
       ELSE /\ agentRec' = <<[agentRec[1] EXCEPT !.active = FALSE]>>
            /\ channel' = Append(channel, [type |-> "session_ended", job |-> 0])
    /\ UNCHANGED <<aw, fsUser>>
    /\ AwUnchanged

\* process_audio, lines 608-638: fetch the audio and transcribe it
AwAudioStart(w) ==
    /\ aw[w].pc = "idle"
    /\ agentQ /= <<>>
    /\ Head(agentQ).kind = "audio"
    /\ agentQ' = Tail(agentQ)
    /\ LET job == Head(agentQ)
       IN IF Missing(Size(job.data), info)
          THEN UNCHANGED aw                          \* status "error"
          ELSE \E heard \in BOOLEAN :
                  aw' = IF heard
                        THEN [aw EXCEPT ![w] = [IdleAgentWorker EXCEPT
                                 !.pc = "transcribed", !.job = job,
                                 !.text = TextOf(job.data)]]
                        ELSE aw                      \* "Failed to transcribe audio"
    /\ UNCHANGED <<channel, agentRec, fsUser>>
    /\ AwUnchanged

\* process_audio, lines 640-645.  load_from_redis reads the record and then
\* calls asyncio.create_task outside a running event loop; the RuntimeError
\* is caught and None is returned, so a new AgentSession is created and
\* initialised whether or not a record exists.
AwLoad(w) ==
    /\ aw[w].pc = "transcribed"
    /\ \E syl \in PipeSyllabus :
          LET r == Initialize(fsUser, syl, games)
          IN /\ agentRec' = IF r.stored THEN <<StoreSessionState(r.sess)>> ELSE agentRec
             /\ aw' = [aw EXCEPT ![w].pc = "in_turn", ![w].sess = r.sess]
    /\ UNCHANGED <<agentQ, channel, fsUser>>
    /\ AwUnchanged

\* process_audio, lines 647-653: the turn, which ends by storing the record
AwTurn(w) ==
    /\ aw[w].pc = "in_turn"
    /\ \E o \in PipeOutcomes :
          LET r == ProcessTranscription(aw[w].sess, fsUser, TurnInput(aw[w].text, o))
          IN /\ agentRec' = <<r.rec>>
             /\ fsUser' = r.fs
             /\ aw' = [aw EXCEPT ![w].pc = "publish", ![w].sess = r.sess]
    /\ UNCHANGED <<agentQ, channel>>
    /\ AwUnchanged

\* process_audio, lines 655-685: store the result and publish it
AwPublish(w) ==
    /\ aw[w].pc = "publish"
    /\ channel' = Append(channel, [type |-> "response", job |-> aw[w].job.id])
    /\ aw' = [aw EXCEPT ![w] = IdleAgentWorker]
    /\ UNCHANGED <<agentQ, agentRec, fsUser>>
    /\ AwUnchanged

NextPipe ==
    \/ RecvAudio(MaxPipeFrames, ChunkSizes)
    \/ RecvEndStream(MaxPipeFrames)
    \/ RecvTextInput(MaxPipeFrames)
    \/ Disconnect
    \/ CwAppend
    \/ CwStrlen
    \/ CwGet
    \/ CwEnqueue
    \/ CwClear
    \/ SwStart
    \/ SwEndCheck
    \/ SwEndGet
    \/ SwEndEnqueue
    \/ SwEndClear
    \/ SwEndState
    \/ \E w \in 1..AgentWorkers : AwInit(w)
    \/ \E w \in 1..AgentWorkers : AwText(w)
    \/ \E w \in 1..AgentWorkers : AwEnd(w)
    \/ \E w \in 1..AgentWorkers : AwAudioStart(w)
    \/ \E w \in 1..AgentWorkers : AwLoad(w)
    \/ \E w \in 1..AgentWorkers : AwTurn(w)
    \/ \E w \in 1..AgentWorkers : AwPublish(w)

SpecPipe == InitPipe /\ [][NextPipe]_vars

\* the audio path alone: the connection and the workers of the per-user
\* queue and of session_management; the jobs they enqueue on agent_processing
\* stay queued
NextAudio ==
    \/ RecvAudio(MaxFrames, AudioChunkSizes)
    \/ RecvEndStream(MaxFrames)
    \/ Disconnect
    \/ CwAppend
    \/ CwStrlen
    \/ CwGet
    \/ CwEnqueue
    \/ CwClear
    \/ SwStart
    \/ SwEndCheck
    \/ SwEndGet
    \/ SwEndEnqueue
    \/ SwEndClear
    \/ SwEndState

SpecAudio == InitPipe /\ [][NextAudio]_vars

\* ---- properties of the pipeline ----

InTurn == {w \in 1..AgentWorkers : aw[w].pc = "in_turn"}

\* C1: at most one agent turn is in progress for the session across the
\* agent_processing workers: no two process_audio jobs are both between
\* loading the session and storing it back
C1_OneTurnAtATime == Cardinality(InTurn) <= 1

Pending(w) == aw[w].pc \in {"transcribed", "in_turn"}

\* C2: agent jobs are processed in dispatch order: when the turn of a
\* process_audio job starts, no job dispatched before it is still waiting
\* for its turn or inside it
C2_DispatchOrder ==
    [][\A w \in 1..AgentWorkers :
          (aw[w].pc = "transcribed" /\ aw'[w].pc = "in_turn")
          => \A v \in 1..AgentWorkers :
                (v /= w /\ Pending(v)) => aw[v].job.id > aw[w].job.id]_vars

\* no end_stream_processing job has been enqueued or run yet
NoEndYet ==
    /\ sw.pc = "idle"
    /\ \A i \in DOMAIN sessQ : sessQ[i].kind /= "end"
    /\ \A i \in DOMAIN stateRec : stateRec[i].active

RECURSIVE DispatchedAudio(_)
DispatchedAudio(jobs) ==
    IF jobs = <<>> THEN <<>> ELSE Head(jobs).data \o DispatchedAudio(Tail(jobs))

FirstReaches(data) ==
    /\ data /= <<>>
    /\ Size(data) >= Threshold
    /\ Size(SubSeq(data, 1, Len(data) - 1)) < Threshold

\* C3: while chunks alone are processed, a dispatch happens at exactly the
\* chunks where the size accumulated since the last drain first reaches
\* 32,000 bytes: every dispatched job holds a run of chunks that reaches the
\* threshold with its last chunk, the jobs followed by the buffer are the
\* chunks appended so far in order, and once the handler has returned the
\* buffer is below the threshold (empty after a dispatch)
C3_ThresholdDispatch ==
    NoEndYet =>
       /\ \A i \in DOMAIN dispatched :
             /\ FirstReaches(dispatched[i].data)
             /\ dispatched[i].size = Size(dispatched[i].data)
       /\ DispatchedAudio(dispatched)
             \o (IF cw.pc = "chunk_clear" THEN <<>> ELSE buffer) = appended
       /\ cw.pc = "idle" => Size(buffer) < Threshold
       /\ cw.pc = "chunk_clear" => buffer = dispatched[Len(dispatched)].data

\* two 16,000-byte chunks have been dispatched as one job, the buffer is
\* empty again and a later chunk has started the next accumulation
C3_Witness ==
    /\ NoEndYet
    /\ cw.pc = "idle"
    /\ Len(dispatched) = 1
    /\ Len(dispatched[1].data) = 2
    /\ dispatched[1].size = Threshold
    /\ Len(appended) = 3
    /\ Len(buffer) = 1

ChunkIds(data) == {data[k].id : k \in DOMAIN data}

\* C4: no byte of the session's audio is in more than one dispatched job
C4_NoByteTwice ==
    \A i, j \in DOMAIN dispatched :
       i /= j => ChunkIds(dispatched[i].data) \cap ChunkIds(dispatched[j].data) = {}

\* every queue is empty and every worker is idle
Quiescent ==
    /\ userQ = <<>>
    /\ sessQ = <<>>
    /\ agentQ = <<>>
    /\ cw.pc = "idle"
    /\ sw.pc = "idle"
    /\ \A w \in 1..AgentWorkers : aw[w].pc = "idle"

Accepted ==
    Cardinality({i \in DOMAIN dispatched : dispatched[i].data /= <<>>})
    + Cardinality({k \in DOMAIN sock : sock[k].type = "info_text"})

Answers == Cardinality({k \in DOMAIN sock : sock[k].type = "agent_response"})

\* C5: every accepted input (a dispatched audio segment or a non-empty
\* text_input) gets an agent_response on its connection: once all the work
\* is done, the open connection has received an answer for each
C5_EveryInputAnswered ==
    (Quiescent /\ conn.state = "open") => Answers >= Accepted

IsForward(e) == e.type \in {"agent_response", "session_ended"}
Forwarded == [k \in DOMAIN SelectSeq(sock, IsForward) |-> SelectSeq(sock, IsForward)[k].type]
Published ==
    [k \in DOMAIN channel |->
        IF channel[k].type = "response" THEN "agent_response" ELSE "session_ended"]

\* C6: while the connection is open a listener is subscribed to the
\* session's channel and every response and session_ended message published
\* on it is forwarded to the socket in publication order: once all the work
\* is done, the socket has received exactly the published messages
C6_ListenerForwards ==
    (Quiescent /\ conn.state = "open") => (subscribed /\ Forwarded = Published)

(***************************************************************************)
(* Further properties of the conversation state machine                    *)
(***************************************************************************)
HasMenuPhrase(content) ==
    LET low == Lower(content)
    IN \/ Contains(low, <<"back", "to", "the", "main", "menu">>)
       \/ Contains(low, <<"what", "would", "you", "like", "to", "play", "next">>)
       \/ Contains(low, <<"choose", "another", "game">>)

\* C11: a turn that starts in a game phase, however that phase was entered,
\* and whose reply contains one of the return phrases ends in ChoiceLayer
\* with the current game cleared.
C11_ReturnToMenu ==
    (lastIn.valid /\ prevAgent \in GameIds /\ HasReply(lastIn)
        /\ HasMenuPhrase(lastIn.content))
    => (sess.current_agent = ChoiceLayer /\ sess.current_game = NoGame)

NamesGame(g, content) ==
    LET low == Lower(content)
    IN \/ Contains(low, <<"welcome", "to">> \o Lower(g.name))
       \/ Contains(low, <<"let's", "play">> \o Lower(g.name))
       \/ Contains(low, <<"starting">> \o Lower(g.name))

SaysGetReady(content) == Contains(Lower(content), <<"get", "ready">>)

\* the games the reply of the last turn announces together with "get ready"
Selected ==
    IF HasReply(lastIn)
    THEN {i \in DOMAIN sess.games :
             NamesGame(sess.games[i], lastIn.content) /\ SaysGetReady(lastIn.content)}
    ELSE {}

ChoiceLayerOutcome ==
    IF Selected /= {}
    THEN \E i \in Selected : sess.current_agent = sess.games[i].id
    ELSE sess.current_agent = ChoiceLayer

HistoryUtterances == {<<"hello">>, <<"Play", "ZOO">>}
HistoryOutcomes == {Outcome("fragments", "ok", ReplyPlain, <<>>, TRUE)}

\* a session whose initialize() went through: the history holds the greeting
InitHistory ==
    /\ InitTurn
    /\ sess.message_history /= <<>>

LongTurn == TurnWith(MaxHistoryTurns, HistoryUtterances, HistoryOutcomes)

NextHistory == LongTurn

SpecHistory == InitHistory /\ [][NextHistory]_vars

HistoryCap == 20

\* C13: the message history never holds more than 20 entries, in the session
\* object at the end of a turn and in the persisted record.
C13_HistoryCapped ==
    /\ Len(sess.message_history) <= HistoryCap
    /\ \A i \in DOMAIN agentRec : Len(agentRec[i].message_history) <= HistoryCap

Greetings == {Msg("assistant", GreetingKnown), Msg("assistant", GreetingNew)}

\* C14: trimming never evicts the first entry: the first message of the
\* history is the greeting the session started with.
C14_FirstMessageKept == sess.message_history[1] \in Greetings

(***************************************************************************)
(* Tool calls and failures of the Inference Service (SpecTurn)             *)
(***************************************************************************)
\* _execute_tool_call, get_child_name and get_child_age: lines 509-521
GetChildName(s) == s.name
GetChildAge(s) == s.age

\* the tool calls of the turn were executed and the last of them is a
\* save_user_info with a name and an age
SavedInfo(in) ==
    /\ in.valid
    /\ in.stream /= "raise"
    /\ in.full \in {"ok", "null"}
    /\ in.tool_calls /= <<>>
    /\ LET call == in.tool_calls[Len(in.tool_calls)]
       IN call.name = "save_user_info" /\ Truthy(call.arg_name) /\ TruthyAge(call.arg_age)

Remembers(s, in) ==
    LET call == in.tool_calls[Len(in.tool_calls)]
    IN GetChildName(s) = call.arg_name /\ GetChildAge(s) = call.arg_age

\* C15: after save_user_info(name, age) has been executed, get_child_name
\* and get_child_age return that name and age, in the same session object
\* and in the session that the next job obtains for the same session id.
C15_SavedInfoRoundTrip ==
    [][/\ SavedInfo(lastIn') => Remembers(sess', lastIn')
       /\ (SavedInfo(lastIn) /\ ~lastIn'.valid) => Remembers(sess', lastIn)]_vars

InferenceFailed(in) ==
    /\ in.valid
    /\ \/ in.stream \in {"raise", "error_text"}
       \/ in.full \in {"raise", "error"}

Apologies == {k \in DOMAIN events : events[k].kind = "yield_apology"}

\* C16: a turn during which the Inference Service failed yields the fixed
\* apology exactly once, ends its history with one assistant entry holding
\* that text, and persists the session.
C16_FailureApology ==
    InferenceFailed(lastIn) =>
       /\ Cardinality(Apologies) = 1
       /\ sess.message_history[Len(sess.message_history)] = Msg("assistant", ApologyText)
       /\ Len(sess.message_history) >= 2
          => sess.message_history[Len(sess.message_history) - 1]
                /= Msg("assistant", ApologyText)
       /\ agentRec = <<StoreSessionState(sess)>>

(***************************************************************************)
(* Ending a session (SpecPipe)                                             *)
(***************************************************************************)
\* end_agent_session has marked the record inactive
AgentEnded == agentRec /= NoRec /\ ~agentRec[1].active

\* C17: once end_agent_session has marked the session's record inactive, no
\* later job changes it: history and phase stay as they are and the active
\* flag stays false.
C17_NoTurnAfterEnd == [][AgentEnded => agentRec' = agentRec]_vars

\* the client has sent end_stream or has disconnected
EndRequested ==
    \/ conn.state = "closed"
    \/ \E k \in DOMAIN sock : sock[k].type = "info_end"

\* C18: ending a session by end_stream or by a disconnect leaves the stream
\* session state and the agent session record marked inactive with the end
\* reason: once all the work is done, both are.
C18_EndMarksInactive ==
    (Quiescent /\ EndRequested) =>
       /\ stateRec /= <<>>
       /\ ~stateRec[1].active
       /\ stateRec[1].reason \in {"client_signal", "disconnect"}
       /\ AgentEnded

(***************************************************************************)
(* The final flush (SpecAudio)                                             *)
(***************************************************************************)
\* half a second of audio at the sample rate and width of app/main.py
SampleRate == 8000
SampleWidth == 2
MinMeaningfulSize == (SampleRate * SampleWidth) \div 2

\* C19: at the end of a session a buffer below the minimum meaningful size
\* is discarded: every job that end_stream_processing enqueues carries at
\* least half a second of audio.
C19_ShortBufferDiscarded ==
    \A i \in DOMAIN dispatched :
       dispatched[i].src = "end" => dispatched[i].size >= MinMeaningfulSize

(***************************************************************************)
(* SpecJobs: the workers that start_worker_for_queue runs on one queue     *)
(* (agent_processing), the jobs the program enqueues there and             *)
(* custom_exception_handler                                                *)
(***************************************************************************)
\* the functions that the program enqueues on agent_processing
JobFuncs ==
    {"app.audio_processor.start_user_session_processor",
     "app.audio_processor.process_user_audio_chunk",
     "app.audio_processor.end_stream_processing",
     "app.agent_worker.process_audio",
     "app.agent_worker.process_text_input",
     "app.agent_worker.initialize_agent_session",
     "app.agent_worker.end_agent_session"}

\* what performing a job can do.  app.agent_worker has no process_text_input
\* and app.audio_processor (app/audio_processor.py) has neither
\* start_user_session_processor nor process_user_audio_chunk, which only
\* app/redis/audio_processor.py defines: resolving the function raises; the
\* other functions return or raise.
HandlerOutcomes(func) ==
    IF func \in {"app.agent_worker.process_text_input",
                 "app.audio_processor.start_user_session_processor",
                 "app.audio_processor.process_user_audio_chunk"}
    THEN {"AttributeError"}
    ELSE {"returned", "Exception"}

\* a handler that logs and stores nothing
SaveJobErrorSkipped(dl, job, err) == dl

\* custom_exception_handler, lines 55-72: SET debug:job_error:<job id>
SaveJobError(dl, job, err) ==
    {r \in dl : r.key /= job.id}
       \cup {[key |-> job.id, func |-> job.func, error_type |-> err]}

\* a queue.enqueue(...) of main.py or of app/redis/audio_processor.py; no
\* call passes a retry policy
Enqueue ==
    /\ \E id \in 1..MaxJobs, f \in JobFuncs :
          /\ performed[id] = 0
          /\ \A k \in DOMAIN workQ : workQ[k].id /= id
          /\ workQ' = Append(workQ, [id |-> id, func |-> f])
    /\ UNCHANGED <<running, performed, failedJobs, deadLetter>>
    /\ UNCHANGED <<turnVars, storeVars, pipeVars, sysVars>>

\* Worker.work: an idle worker takes the job at the head of the queue
Dequeue(w) ==
    /\ running[w] = <<>>
    /\ workQ /= <<>>
    /\ running' = [running EXCEPT ![w] = <<Head(workQ)>>]
    /\ workQ' = Tail(workQ)
    /\ performed' = [performed EXCEPT ![Head(workQ).id] = @ + 1]
    /\ UNCHANGED <<failedJobs, deadLetter>>
    /\ UNCHANGED <<turnVars, storeVars, pipeVars, sysVars>>

\* the job's function returns
JobReturns(w) ==
    /\ running[w] /= <<>>
    /\ "returned" \in HandlerOutcomes(running[w][1].func)
    /\ running' = [running EXCEPT ![w] = <<>>]
    /\ UNCHANGED <<workQ, performed, failedJobs, deadLetter>>
    /\ UNCHANGED <<turnVars, storeVars, pipeVars, sysVars>>

\* the job's function raises: the job is marked failed and the worker calls
\* custom_exception_handler, which stores the record and returns False, so
\* that no further handler runs; the job is not put back on the queue
JobRaises(w) ==
    /\ running[w] /= <<>>
    /\ \E err \in HandlerOutcomes(running[w][1].func) \ {"returned"} :
          deadLetter' = SaveJobError(deadLetter, running[w][1], err)
    /\ failedJobs' = failedJobs \cup {running[w][1].id}
    /\ running' = [running EXCEPT ![w] = <<>>]
    /\ UNCHANGED <<workQ, performed>>
    /\ UNCHANGED <<turnVars, storeVars, pipeVars, sysVars>>

InitJobs ==
    /\ sess = NewSession
    /\ events = <<>>
    /\ prevAgent = UserInfoCollector
    /\ lastIn = NoInput
    /\ turns = 0
    /\ agentRec = NoRec
    /\ fsUser = [name |-> NoName, age |-> NoAge, vocab |-> {}]
    /\ games = <<>>
    /\ PipeAtRest
    /\ JobsAtRest
    /\ SystemAtRest

NextJobs ==
    \/ Enqueue
    \/ \E w \in 1..AgentWorkers : Dequeue(w)
    \/ \E w \in 1..AgentWorkers : JobReturns(w)
    \/ \E w \in 1..AgentWorkers : JobRaises(w)

SpecJobs == InitJobs /\ [][NextJobs]_vars

JustInitialised == ~lastIn.valid /\ sess.message_history /= <<>>

\* C29: every newly created and initialised session starts in phase
\* UserInfoCollector with no current game.
C29_StartsCollectingInfo ==
    JustInitialised =>
       (sess.current_agent = UserInfoCollector /\ sess.current_game = NoGame)

\* C26: loading a session after it was saved yields a session with the
\* saved active flag, phase, current game, message history and profile;
\* loading an absent key yields None.
C26_LoadRoundTrip ==
    LET loaded == LoadFromRedis(agentRec, InEventLoop)
    IN IF agentRec = NoRec
       THEN loaded = <<>>
       ELSE loaded /= <<>> /\ StoreSessionState(loaded[1]) = agentRec[1]

(***************************************************************************)
(* Turns whose reply carries tool calls (SpecTools)                        *)
(***************************************************************************)
MaxToolTurns == 3

TrackVocabulary(w, t) == [name |-> "track_vocabulary", word |-> w, translation |-> t]
UnknownCall == [name |-> "set_reminder"]
KnownTools == {"save_user_info", "track_vocabulary", "get_child_name", "get_child_age"}

ToolUtterances == {<<"hello">>}
ToolOutcomes ==
    {Outcome("fragments", "ok", ReplyPlay, <<UnknownCall, SaveUserInfo("Bea", 5)>>, TRUE),
     Outcome("fragments", "ok", ReplyPlain, <<UnknownCall>>, TRUE),
     Outcome("fragments", "ok", ReplyPlain, <<[name |-> "get_child_name"]>>, TRUE),
     Outcome("fragments", "ok", ReplyPlain, <<TrackVocabulary("gato", "kitty")>>, TRUE),
     Outcome("fragments", "ok", ReplyPlain, <<TrackVocabulary("perro", "dog")>>, TRUE),
     Outcome("fragments", "ok", ReplyPlain, <<TrackVocabulary("perro", "hound")>>, FALSE),
     Outcome("fragments", "ok", ReplyPlain,
             <<TrackVocabulary("gato", "cat"), UnknownCall, TrackVocabulary("gato", "puss")>>,
             TRUE)}

ToolProfiles ==
    {[name |-> NoName, age |-> NoAge, vocab |-> {}],
     [name |-> "Alex", age |-> 6,
      vocab |-> {[word |-> "gato", translation |-> "cat"]}]}

InitTools ==
    /\ games \in Registries
    /\ fsUser \in ToolProfiles
    /\ \E syl \in SyllabusOutcomes :
          LET r == Initialize(fsUser, syl, games)
          IN /\ sess = r.sess
             /\ agentRec = IF r.stored THEN <<StoreSessionState(r.sess)>> ELSE NoRec
    /\ events = <<>>
    /\ prevAgent = sess.current_agent
    /\ lastIn = NoInput
    /\ turns = 0
    /\ PipeAtRest
    /\ JobsAtRest
    /\ SystemAtRest

ToolTurn == TurnWith(MaxToolTurns, ToolUtterances, ToolOutcomes)

NextTools == CreateSession \/ ToolTurn

SpecTools == InitTools /\ [][NextTools]_vars

\* the tool calls of the turn were executed
RanToolCalls(in) == in.valid /\ in.stream /= "raise" /\ in.full \in {"ok", "null"}

UnknownCalls(in) ==
    {k \in DOMAIN in.tool_calls : in.tool_calls[k].name \notin KnownTools}

\* C27: a tool call with an unknown name gives a result with success false
\* and the turn goes on: the calls after it are executed, the reply is the
\* last entry of the history, the handoff check has run (from
\* UserInfoCollector with name and age set and a trigger phrase in the reply
\* the phase is ChoiceLayer), no apology is yielded and the session record
\* is the session.
C27_UnknownToolGoesOn ==
    (HasReply(lastIn) /\ UnknownCalls(lastIn) /= {}) =>
        /\ \A k \in UnknownCalls(lastIn) :
              ~ExecuteToolCall(sess, fsUser, lastIn.tool_calls[k], lastIn.fsUp).success
        /\ SavedInfo(lastIn) => Remembers(sess, lastIn)
        /\ \A k \in DOMAIN lastIn.tool_calls :
              LET call == lastIn.tool_calls[k]
              IN (call.name = "track_vocabulary" /\ k > 1) =>
                    \E e \in sess.vocab : e.word = call.word
        /\ sess.message_history /= <<>>
        /\ sess.message_history[Len(sess.message_history)]
              = Msg("assistant", lastIn.content)
        /\ (prevAgent = UserInfoCollector /\ BothSet(sess)
              /\ HasChoiceTrigger(lastIn.content))
              => sess.current_agent = ChoiceLayer
        /\ Apologies = {}
        /\ agentRec = <<StoreSessionState(sess)>>

\* a turn in UserInfoCollector whose reply calls an unknown tool and then
\* save_user_info has ended in ChoiceLayer
C27_Witness ==
    /\ HasReply(lastIn)
    /\ UnknownCalls(lastIn) /= {}
    /\ SavedInfo(lastIn)
    /\ prevAgent = UserInfoCollector
    /\ sess.current_agent = ChoiceLayer
    /\ sess.name = "Bea"

Words(v) == {e.word : e \in v}

\* the track_vocabulary calls of the turn that no later call of the turn
\* overwrites
LastTracked(in) ==
    {k \in DOMAIN in.tool_calls :
        /\ in.tool_calls[k].name = "track_vocabulary"
        /\ \A j \in DOMAIN in.tool_calls :
              (j > k /\ in.tool_calls[j].name = "track_vocabulary")
                 => in.tool_calls[j].word /= in.tool_calls[k].word}

OneEntryPerWord(v) == \A a, b \in v : a.word = b.word => a = b

\* C28: a turn removes no word from the vocabulary of the session or of
\* the Profile Store, and after it each tracked word has one entry, with
\* the translation of the last call that tracked it.
C28_VocabularyAppendOnly ==
    [][RanToolCalls(lastIn') =>
          /\ Words(sess.vocab) \subseteq Words(sess'.vocab)
          /\ Words(fsUser.vocab) \subseteq Words(fsUser'.vocab)
          /\ OneEntryPerWord(sess'.vocab)
          /\ OneEntryPerWord(fsUser'.vocab)
          /\ \A k \in LastTracked(lastIn') :
                LET call == lastIn'.tool_calls[k]
                    entry == [word |-> call.word, translation |-> call.translation]
                IN /\ entry \in sess'.vocab
                   /\ lastIn'.fsUp => entry \in fsUser'.vocab]_vars

\* the stored vocabulary of a user who had "gato" recorded as "cat" holds a
\* second word and, for "gato", the translation tracked last
C28_Witness ==
    /\ RanToolCalls(lastIn)
    /\ LastTracked(lastIn) /= {}
    /\ fsUser.name = "Alex"
    /\ [word |-> "perro", translation |-> "dog"] \in fsUser.vocab
    /\ \E e \in fsUser.vocab : e.word = "gato" /\ e.translation /= "cat"
    /\ Cardinality(fsUser.vocab) = 2

(***************************************************************************)
(* A chunk job that is delivered twice (SpecRedeliver)                     *)
(***************************************************************************)
\* the per-user queue hands the worker the job it has just performed once
\* more: same session id and audio key, the key still holds the chunk
DeliverAgain ==
    /\ cw.pc = "idle"
    /\ appended /= <<>>
    /\ LET c == appended[Len(appended)]
       IN /\ \A k \in DOMAIN appended : k /= Len(appended) => appended[k] /= c
          /\ \A k \in DOMAIN userQ : userQ[k] /= c
          /\ userQ' = <<c>> \o userQ
    /\ UNCHANGED <<conn, sock, sessQ, agentQ, buffer, cw, sw, aw, channel,
                   subscribed, dispatched, appended, stateRec>>
    /\ UNCHANGED <<turnVars, storeVars, jobVars, sysVars>>

NextRedeliver ==
    \/ RecvAudio(MaxFrames, AudioChunkSizes)
    \/ DeliverAgain
    \/ CwAppend
    \/ CwStrlen
    \/ CwGet
    \/ CwEnqueue
    \/ CwClear

SpecRedeliver == InitPipe /\ [][NextRedeliver]_vars

\* C23: the dispatched jobs and the buffer are what one delivery of each
\* chunk job gives: no chunk is in them twice.
C23_RedeliveryIdempotent ==
    LET held == DispatchedAudio(dispatched)
                   \o (IF cw.pc = "chunk_clear" THEN <<>> ELSE buffer)
    IN \A i, j \in DOMAIN held : i /= j => held[i].id /= held[j].id

(***************************************************************************)
(* The buffer and the order of receipt (SpecAudio)                         *)
(***************************************************************************)
\* C30: whenever no handler is at work on the buffer, the buffer is the
\* chunks received since the last drain, in receipt order: the audio of
\* the dispatched jobs followed by the buffer is the sequence of chunks
\* appended so far.
C30_BufferInReceiptOrder ==
    (cw.pc = "idle" /\ sw.pc = "idle") =>
       DispatchedAudio(dispatched) \o buffer = appended

(***************************************************************************)
(* Malformed control messages (SpecConn)                                   *)
(***************************************************************************)
\* a text frame that is not JSON, a JSON object whose type is not known, a
\* JSON value that is not an object
MalformedKinds == {"not_json", "unknown_type", "not_object"}

\* a malformed text frame: lines 157-161 and 200-205.  json.loads raises
\* JSONDecodeError for text that is not JSON; message.get raises
\* AttributeError for a list, string, number or null, which the handler at
\* 225-229 catches outside the receive loop, so the endpoint returns.
\* conn.bad records the malformed frames received.
RecvMalformed(limit) ==
    /\ conn.state = "open"
    /\ conn.frames < limit
    /\ \E kind \in MalformedKinds :
          /\ conn' = [conn EXCEPT !.frames = @ + 1,
                                  !.bad = Append(@, kind),
                                  !.state = IF kind = "not_object" THEN "failed" ELSE @]
          /\ sock' = IF kind = "not_json"
                     THEN Append(sock, Envelope("error", conn.frames + 1))
                     ELSE sock
    /\ UNCHANGED <<userQ, sessQ, agentQ, buffer, cw, sw, aw, channel, subscribed,
                   dispatched, appended, stateRec>>
    /\ UNCHANGED <<turnVars, storeVars, jobVars, sysVars>>

\* the endpoint has returned and the interpreter collects its locals: the
\* PubSub object closes its connection and the server drops the
\* subscription.  Neither exit path of the handler (lines 207-229) calls
\* pubsub.unsubscribe(); only the listener's finally clause (269-272) does,
\* and the listener never runs.
PubSubCollected ==
    /\ conn.state /= "open"
    /\ subscribed
    /\ subscribed' = FALSE
    /\ UNCHANGED <<conn, sock, userQ, sessQ, agentQ, buffer, cw, sw, aw, channel,
                   dispatched, appended, stateRec>>
    /\ UNCHANGED <<turnVars, storeVars, jobVars, sysVars>>

NextConn ==
    \/ PubSubCollected
    \/ RecvAudio(MaxFrames, ChunkSizes)
    \/ RecvEndStream(MaxFrames)
    \/ RecvTextInput(MaxFrames)
    \/ RecvMalformed(MaxFrames)
    \/ Disconnect

SpecConn == InitPipe /\ [][NextConn]_vars

\* C24: a step that receives a malformed control message leaves the
\* connection open and the three queues as they were, and answers text
\* that is not JSON with an 'error' envelope.
C24_MalformedIgnored ==
    [][conn'.bad /= conn.bad =>
          /\ conn'.state = "open"
          /\ userQ' = userQ /\ sessQ' = sessQ /\ agentQ' = agentQ
          /\ conn'.bad[Len(conn'.bad)] = "not_json"
                => sock' = Append(sock, Envelope("error", conn'.frames))]_vars

(***************************************************************************)
(* Session identifiers of connections (SpecConnect)                        *)
(***************************************************************************)
MaxConns == 3
MaxClock == 2

\* device ids as the path parameter gives them, in characters or runs of
\* characters
Devices == {<<"esp1">>, <<"esp", ":", "2">>, <<"esp", "_", "2">>}

\* lines 87-88: f"session:{device_id}:{int(time.time())}" with every ":"
\* replaced by "_"
SessionId(device, t) ==
    LET text == <<"session", ":">> \o device \o <<":", <<"0", "1", "2", "3">>[t + 1]>>
    IN [i \in DOMAIN text |-> IF text[i] = ":" THEN "_" ELSE text[i]]

\* websocket_endpoint accepts a connection: lines 83-121
Connect ==
    /\ Len(conns) < MaxConns
    /\ \E d \in Devices :
          conns' = Append(conns, [device |-> d, session_id |-> SessionId(d, clock)])
    /\ UNCHANGED <<clock, mgr, queueKey, info>>
    /\ UNCHANGED <<turnVars, storeVars, pipeVars, jobVars>>

\* a second passes
Tick ==
    /\ clock < MaxClock
    /\ clock' = clock + 1
    /\ UNCHANGED <<conns, mgr, queueKey, info>>
    /\ UNCHANGED <<turnVars, storeVars, pipeVars, jobVars>>

NextConnect == Connect \/ Tick

SpecConnect == InitJobs /\ [][NextConnect]_vars

\* C25: two distinct connection instances never have the same session
\* identifier (the key of the session record, the audio buffer and the
\* fan-out channel).
C25_SessionIdUnique ==
    \A i, j \in DOMAIN conns :
       i /= j => conns[i].session_id /= conns[j].session_id

(***************************************************************************)
(* The worker manager (SpecWorkers)                                        *)
(***************************************************************************)
MaxProcs == 8

\* monitor_user_queues, lines 121-181, on the manager state m with the
\* user queue key present or not
MonitorUserQueues(m, present) ==
    LET agentNeeded == \A k \in {"agent_processing_0", "agent_processing_1"} :
                          m.tracked[k] = 0
        n == Len(m.procs)
        m1 == IF agentNeeded
              THEN [m EXCEPT
                      !.procs = @ \o <<[queue |-> "agent_processing_0", alive |-> TRUE],
                                       [queue |-> "agent_processing_1", alive |-> TRUE]>>,
                      !.tracked = [@ EXCEPT !["agent_processing_0"] = n + 1,
                                            !["agent_processing_1"] = n + 2]]
              ELSE m
    IN IF present /\ ~m1.flag
       THEN [m1 EXCEPT !.flag = TRUE,
                       !.procs = Append(@, [queue |-> UserQueue, alive |-> TRUE]),
                       !.tracked = [@ EXCEPT ![UserQueue] = Len(m1.procs) + 1]]
       ELSE m1

\* check_worker_health, lines 183-203
CheckWorkerHealth(m) ==
    LET dead == {k \in WorkerKeys :
                    m.tracked[k] /= 0 /\ ~m.procs[m.tracked[k]].alive}
    IN [m EXCEPT !.tracked = [k \in WorkerKeys |-> IF k \in dead THEN 0 ELSE @[k]],
                 !.flag = IF UserQueue \in dead THEN FALSE ELSE @]

\* one iteration of the monitoring loop, lines 259-268
ManagerLoop ==
    /\ Len(mgr.procs) + AgentWorkers + 1 <= MaxProcs
    /\ mgr' = CheckWorkerHealth(MonitorUserQueues(mgr, queueKey))
    /\ UNCHANGED <<clock, conns, queueKey, info>>
    /\ UNCHANGED <<turnVars, storeVars, pipeVars, jobVars>>

\* a worker process exits
WorkerDies ==
    /\ \E p \in DOMAIN mgr.procs :
          /\ mgr.procs[p].alive
          /\ mgr' = [mgr EXCEPT !.procs[p].alive = FALSE]
    /\ UNCHANGED <<clock, conns, queueKey, info>>
    /\ UNCHANGED <<turnVars, storeVars, pipeVars, jobVars>>

\* the 3600 s of worker:<queue>, set at line 159, have passed
FlagExpires ==
    /\ mgr.flag
    /\ mgr' = [mgr EXCEPT !.flag = FALSE]
    /\ UNCHANGED <<clock, conns, queueKey, info>>
    /\ UNCHANGED <<turnVars, storeVars, pipeVars, jobVars>>

\* main.py:140 enqueues a chunk job on the empty user queue
JobArrives ==
    /\ ~queueKey
    /\ queueKey' = TRUE
    /\ UNCHANGED <<clock, conns, mgr, info>>
    /\ UNCHANGED <<turnVars, storeVars, pipeVars, jobVars>>

\* a live worker of the user queue takes its last job: Redis removes the
\* empty list
QueueDrained ==
    /\ queueKey
    /\ \E p \in DOMAIN mgr.procs :
          mgr.procs[p].queue = UserQueue /\ mgr.procs[p].alive
    /\ queueKey' = FALSE
    /\ UNCHANGED <<clock, conns, mgr, info>>
    /\ UNCHANGED <<turnVars, storeVars, pipeVars, jobVars>>

NextWorkers ==
    \/ ManagerLoop
    \/ WorkerDies
    \/ FlagExpires
    \/ JobArrives
    \/ QueueDrained

SpecWorkers == InitJobs /\ [][NextWorkers]_vars

LiveOn(m, k) == \E p \in DOMAIN m.procs : m.procs[p].queue = k /\ m.procs[p].alive
DeadOn(m, k) == \E p \in DOMAIN m.procs : m.procs[p].queue = k /\ ~m.procs[p].alive

\* C21: at most one live worker process is bound to the per-user queue.
C21_OneWorkerPerUserQueue ==
    \A p, q \in DOMAIN mgr.procs :
       (/\ mgr.procs[p].queue = UserQueue /\ mgr.procs[p].alive
        /\ mgr.procs[q].queue = UserQueue /\ mgr.procs[q].alive) => p = q

\* C22: an iteration of the monitoring loop that starts with a queue whose
\* worker has died, with no live worker on it and its entry and flag
\* cleared, ends with a live worker on that queue.
C22_DeadWorkerReplaced ==
    [][ManagerLoop =>
          \A k \in WorkerKeys :
             (DeadOn(mgr, k) /\ ~LiveOn(mgr, k) /\ mgr.tracked[k] = 0
                /\ (k = UserQueue => ~mgr.flag))
                => LiveOn(mgr', k)]_vars

(***************************************************************************)
(* Phase and current game (SpecTurn)                                       *)
(***************************************************************************)
\* C37: whenever the phase is a game phase, current_game is that game's id.
C37_GamePhaseHasItsGame ==
    sess.current_agent \in GameIds => sess.current_game = sess.current_agent

(***************************************************************************)
(* The end of the receive loop (SpecConn)                                  *)
(***************************************************************************)
\* C39: a step that ends the receive loop, for any cause, enqueues one
\* end_stream_processing job on session_management.
C39_LoopEndEnqueuesEnd ==
    [][(conn.state = "open" /\ conn'.state /= "open") =>
          /\ Len(sessQ') = Len(sessQ) + 1
          /\ sessQ'[Len(sessQ')].kind = "end"]_vars

(***************************************************************************)
(* Drains of the buffer (SpecAudio)                                        *)
(***************************************************************************)
\* the chunks a drain has read and not yet enqueued
InDrain ==
    (IF cw.pc = "chunk_enqueue" THEN cw.data ELSE <<>>)
       \o (IF sw.pc = "end_enqueue" THEN sw.data ELSE <<>>)

\* C35: every chunk appended to the buffer is in a dispatched job, in the
\* hands of a drain that is about to dispatch it, or still in the buffer.
C35_NoByteLostByDrain ==
    \A k \in DOMAIN appended :
       appended[k].id \in ChunkIds(DispatchedAudio(dispatched))
                            \cup ChunkIds(InDrain) \cup ChunkIds(buffer)

\* C36: once the connection has ended and every end_stream_processing job
\* has been performed, every chunk the connection accepted has been
\* appended and none is left in the buffer.
C36_ChunksBeforeFlush ==
    (/\ conn.state = "closed"
     /\ sessQ = <<>> /\ sw.pc = "idle"
     /\ stateRec /= <<>> /\ ~stateRec[1].active)
       => /\ \A k \in DOMAIN userQ : userQ[k].size = 0
          /\ cw.pc = "idle"
          /\ buffer = <<>>

(***************************************************************************)
(* The persisted history across jobs (SpecTurn)                            *)
(***************************************************************************)
\* C34: the history persisted at the end of a turn holds the user entry
\* and the assistant entry of every turn the session has completed (fewer
\* than HistoryCap entries here, so nothing is trimmed).
C34_NoTurnLost ==
    (lastIn.valid /\ agentRec /= NoRec) =>
       Len(agentRec[1].message_history) >= 2 * turns

(***************************************************************************)
(* Executing a tool call a second time (SpecTools)                         *)
(***************************************************************************)
\* C32: executing the tool call a turn has executed last once more, with
\* the same arguments, leaves the session and the Profile Store as they
\* are; get_child_name and get_child_age change neither.
C32_ToolsIdempotent ==
    /\ (RanToolCalls(lastIn) /\ lastIn.tool_calls /= <<>>) =>
          LET call == lastIn.tool_calls[Len(lastIn.tool_calls)]
              again == ExecuteToolCall(sess, fsUser, call, lastIn.fsUp)
          IN again.sess = sess /\ again.fs = fsUser
    /\ \A n \in {"get_child_name", "get_child_age"}, up \in BOOLEAN :
          LET r == ExecuteToolCall(sess, fsUser, [name |-> n], up)
          IN r.sess = sess /\ r.fs = fsUser

\* a turn has tracked a word, and the session and the store hold its entry
C32_Witness ==
    /\ RanToolCalls(lastIn)
    /\ lastIn.tool_calls /= <<>>
    /\ LET call == lastIn.tool_calls[Len(lastIn.tool_calls)]
       IN /\ call.name = "track_vocabulary"
          /\ [word |-> call.word, translation |-> call.translation] \in sess.vocab
          /\ [word |-> call.word, translation |-> call.translation] \in fsUser.vocab

(***************************************************************************)
(* Jobs whose audio key or session info is gone (SpecNotFound)             *)
(***************************************************************************)
\* the 300 s of agent:audio:<session_id>:<time> (audio_processor.py:82)
\* have passed before a worker takes the job
KeyExpires ==
    /\ \E i \in DOMAIN agentQ :
          /\ agentQ[i].kind = "audio"
          /\ agentQ[i].data /= <<>>
          /\ agentQ' = [agentQ EXCEPT ![i].data = <<>>]
    /\ UNCHANGED <<conn, sock, userQ, sessQ, buffer, cw, sw, aw, channel,
                   subscribed, dispatched, appended, stateRec>>
    /\ UNCHANGED <<turnVars, storeVars, jobVars, sysVars>>

\* the 3600 s of session:info:<session_id> (main.py:97-103) have passed
InfoExpires ==
    /\ info
    /\ info' = FALSE
    /\ UNCHANGED <<clock, conns, mgr, queueKey>>
    /\ UNCHANGED <<turnVars, storeVars, pipeVars, jobVars>>

NextNotFound ==
    \/ RecvAudio(MaxFrames, ChunkSizes)
    \/ KeyExpires
    \/ InfoExpires
    \/ CwAppend
    \/ CwStrlen
    \/ CwGet
    \/ CwEnqueue
    \/ CwClear
    \/ \E w \in 1..AgentWorkers : AwAudioStart(w)
    \/ \E w \in 1..AgentWorkers : AwLoad(w)
    \/ \E w \in 1..AgentWorkers : AwTurn(w)
    \/ \E w \in 1..AgentWorkers : AwPublish(w)

SpecNotFound == InitPipe /\ [][NextNotFound]_vars

\* C33: a chunk job or a process_audio job whose audio key holds nothing,
\* or whose session info is gone, is taken from its queue and changes
\* neither the buffer nor the agent session record nor any other queue,
\* and leaves the worker idle for the next job.
C33_NotFoundChangesNothing ==
    [][/\ (/\ userQ /= <<>> /\ userQ' = Tail(userQ)
           /\ (Head(userQ).size = 0 \/ ~info))
          => /\ buffer' = buffer /\ appended' = appended
             /\ agentRec' = agentRec /\ fsUser' = fsUser
             /\ sessQ' = sessQ /\ agentQ' = agentQ
             /\ cw' = cw /\ cw.pc = "idle"
       /\ (/\ agentQ /= <<>> /\ agentQ' = Tail(agentQ)
           /\ Head(agentQ).kind = "audio"
           /\ (Head(agentQ).data = <<>> \/ ~info))
          => /\ buffer' = buffer
             /\ agentRec' = agentRec /\ fsUser' = fsUser
             /\ sessQ' = sessQ /\ userQ' = userQ
             /\ channel' = channel
             /\ aw' = aw]_vars

\* a chunk job with nothing under its key, or with the session info gone,
\* was dropped and the worker has appended a later chunk
C33_Witness ==
    /\ cw.pc = "idle"
    /\ \E d \in 1..conn.frames :
          /\ d \notin ChunkIds(appended) \cup ChunkIds(userQ)
          /\ \E k \in DOMAIN appended : appended[k].id > d

(***************************************************************************)
(* Looking up the handler of a job (SpecJobs)                              *)
(***************************************************************************)
\* C38: no job fails when the worker looks up the function it names: no
\* dead-letter record holds an AttributeError.
C38_HandlersExist ==
    \A r \in deadLetter : r.error_type /= "AttributeError"

(***************************************************************************)
(* The subscription after the connection has ended (SpecConn)              *)
(***************************************************************************)
\* C31: once the connection has ended, no subscription to the session's
\* channel remains.
C31_NoSubscriberAfterEnd ==
    conn.state /= "open" => ~subscribed

====
